---- MODULE Spec2Model ----
(***************************************************************************)
(* circlez: approximation of a target raster image by stamping circles.    *)
(* Model of src/src/main.rs: the pixel buffer (Image), the midpoint-circle *)
(* rasterizer, the colour estimator, the loss evaluator, the search step   *)
(* (tick), the per-round worker threads of main and the best-of-ensemble   *)
(* composition and export.                                                 *)
(*                                                                         *)
(* Numbers.  Colours are triples of u8.  The f32 values of the program are *)
(* modelled by integers: pixel_loss is a sum of three squares of integers  *)
(* below 2^16, a loss_delta of at most 86 terms stays below 2^24, and the  *)
(* colour estimate divides and blends integers with a weight r/max_radius  *)
(* that is exact in f32 when max_radius is 1, 2 or 4.  Every image of this *)
(* model has min(width, height) <= 11, so max_radius <= 2 and every f32    *)
(* operation of the program is exact on the values that occur.             *)
(***************************************************************************)
EXTENDS Integers, Sequences, FiniteSets

VARIABLES
    args,          \* Args: [threads, iterations]                (main.rs:8-17)
    target,        \* the target Image                           (main.rs:28)
    approxes,      \* Vec<Image>, one approximation per member   (main.rs:33)
    canvas,        \* Vec<u32>, the display buffer               (main.rs:35)
    output_image,  \* the exported image, <<>> until exported    (main.rs:72)
    window,        \* [open, escape]: what is_open / is_key_down report
    pc,            \* position of main
    spawned,       \* number of workers spawned in the current scope
    wst,           \* per worker: "idle", "running", "done", "panicked"
    iter,          \* per worker: iterations of `for _ in 0..iterations` run
    rounds,        \* rounds started (history)
    composed,      \* calls of compose (history)
    exports,       \* final exports performed (history)
    last,          \* the most recent direct call of tick and its result
    probe,         \* the most recent direct call of color_at and its result
    circ           \* generate_circle_points, one loop iteration per step

vars == << args, target, approxes, canvas, output_image, window, pc, spawned,
           wst, iter, rounds, composed, exports, last, probe, circ >>

drivervars == << args, target, approxes, canvas, output_image, window, pc,
                 spawned, wst, iter, rounds, composed, exports >>

-----------------------------------------------------------------------------
(* Bounds of the model. *)

\* members of the ensemble (--threads)
Threads == 2
\* search steps per member and round (--iterations)
Iterations == 1
\* rounds the driver may start
MaxRounds == 2
\* direct calls of tick in the search-step specification
MaxTicks == 2
\* radii 1..MaxR and centres -MaxC..MaxC in the rasterizer specification
MaxR == 6
MaxC == 2
\* coordinates 0..MaxCoord handed to color_at in the search-step specification
MaxCoord == 4

-----------------------------------------------------------------------------
(* Pixel buffer. *)

Black == <<0, 0, 0>>

\* The outcome of a call that panics (a slice index out of range).
Panic == <<"panic">>

\* Image { width, height, pixels }: pixels holds one colour per position, row
\* major; the colour of (x, y) is the bytes 3*(y*width+x) .. +2 of the Vec<u8>.
\* img.pixels().flat_map(|pixel| pixel.0).collect() of an image that holds
\* f[<<x, y>>] at (x, y).
MkImage(w, h, f) ==
    [width |-> w, height |-> h,
     pixels |-> [i \in 1..(w * h) |-> f[<<(i - 1) % w, (i - 1) \div w>>]]]

\* RgbImage::new(width, height): zero filled.
Blank(w, h) == MkImage(w, h, [p \in (0..(w - 1)) \X (0..(h - 1)) |-> Black])

\* offset = (y * width + x) * 3; &pixels[offset..][..3].  The slice panics when
\* offset > len or fewer than 3 bytes follow; nothing compares x with width.
color_at(img, point) ==
    LET index == point[2] * img.width + point[1]
    IN  IF index < Len(img.pixels) THEN img.pixels[index + 1] ELSE Panic

\* offset = (y * width + x) * 3; &mut pixels[offset..][..3]: the same index, and
\* the same panic, as color_at.
Accessible(img, point) == point[2] * img.width + point[1] < Len(img.pixels)

\* *self.color_at_mut(pos) = col, for an accessible pos
set_color(img, point, col) ==
    [img EXCEPT !.pixels[point[2] * img.width + point[1] + 1] = col]

\* for (pos, col) in changes { *self.color_at_mut(pos) = col; }
RECURSIVE apply(_, _)
apply(img, changes) ==
    IF changes = <<>> THEN img
    ELSE apply(set_color(img, Head(changes)[1], Head(changes)[2]), Tail(changes))

-----------------------------------------------------------------------------
(* Rasterizer. *)

CircleStart(xc, yc, r) ==
    [xc |-> xc, yc |-> yc, r |-> r, x |-> 0, y |-> r, d |-> 3 - 2 * r,
     points |-> <<>>]

\* octant_points with the third point's sign mistyped.
octant_points_Typo(s) ==
    << <<s.xc + s.x, s.yc + s.y>>, <<s.xc - s.x, s.yc + s.y>>,
       <<s.xc + s.x, s.yc + s.y>>, <<s.xc - s.x, s.yc - s.y>>,
       <<s.xc + s.y, s.yc + s.x>>, <<s.xc - s.y, s.yc + s.x>>,
       <<s.xc + s.y, s.yc - s.x>>, <<s.xc - s.y, s.yc - s.x>> >>

octant_points(s) ==
    << <<s.xc + s.x, s.yc + s.y>>, <<s.xc - s.x, s.yc + s.y>>,
       <<s.xc + s.x, s.yc - s.y>>, <<s.xc - s.x, s.yc - s.y>>,
       <<s.xc + s.y, s.yc + s.x>>, <<s.xc - s.y, s.yc + s.x>>,
       <<s.xc + s.y, s.yc - s.x>>, <<s.xc - s.y, s.yc - s.x>> >>

\* One iteration of `while x <= y`.
CircleStep(s) ==
    [s EXCEPT !.points = @ \o octant_points(s),
              !.d = IF s.d < 0 THEN s.d + 4 * s.x + 6
                               ELSE s.d + 4 * (s.x - s.y) + 10,
              !.y = IF s.d < 0 THEN s.y ELSE s.y - 1,
              !.x = s.x + 1]

RECURSIVE CircleRun(_)
CircleRun(s) == IF s.x <= s.y THEN CircleRun(CircleStep(s)) ELSE s.points

generate_circle_points(xc, yc, r) == CircleRun(CircleStart(xc, yc, r))

-----------------------------------------------------------------------------
(* Loss evaluator. *)

Sq(n) == n * n

pixel_loss(a, b) == Sq(a[1] - b[1]) + Sq(a[2] - b[2]) + Sq(a[3] - b[3])

\* One term per element of the change set, in order, duplicates included.
RECURSIVE loss_delta(_, _, _)
loss_delta(tgt, approx, changes) ==
    IF changes = <<>> THEN 0
    ELSE LET pos == Head(changes)[1]
             new_col == Head(changes)[2]
             loss_without_changes == pixel_loss(color_at(tgt, pos), color_at(approx, pos))
             loss_with_changes == pixel_loss(color_at(tgt, pos), new_col)
         IN  (loss_with_changes - loss_without_changes)
             + loss_delta(tgt, approx, Tail(changes))

-----------------------------------------------------------------------------
(* Colour estimator. *)

\* The filter without its test of x against the width.
in_image_NoWidth(tgt, p) ==
    p[1] >= 0 /\ p[2] >= 0 /\ p[2] < tgt.height

\* The filter of lines 121-123 and 165-167: the point lies in the image.
in_image(tgt, p) ==
    p[1] >= 0 /\ p[2] >= 0 /\ p[1] < tgt.width /\ p[2] < tgt.height

Min(a, b) == IF a <= b THEN a ELSE b

\* (target.width.min(target.height) / 4)
max_radius(tgt) == Min(tgt.width, tgt.height) \div 4

\* .fold([0f32; 3], ...): the sum of channel c of the target over the points.
RECURSIVE ChannelSum(_, _, _)
ChannelSum(tgt, points, c) ==
    IF points = <<>> THEN 0
    ELSE color_at(tgt, Head(points))[c] + ChannelSum(tgt, Tail(points), c)

\* ((1.0 - weight) * center + weight * edge) as u8 with
\* weight = (radius / max_radius).min(1.0); a max_radius of 0 gives weight 1.
Blend(center, edge, radius, maxr) ==
    IF maxr = 0 \/ radius >= maxr THEN edge
    ELSE ((maxr - radius) * center + radius * edge) \div maxr

calculate_weighted_color(tgt, center_x, center_y, radius, circle_points) ==
    LET center_color == IF in_image(tgt, <<center_x, center_y>>)
                        THEN color_at(tgt, <<center_x, center_y>>)
                        ELSE Black
        valid == SelectSeq(circle_points, LAMBDA p : in_image(tgt, p))
        valid_points == Len(valid)
        edge_color == [c \in 1..3 |-> ChannelSum(tgt, valid, c) \div valid_points]
    IN  IF valid_points = 0 THEN center_color
        ELSE [c \in 1..3 |->
                Blend(center_color[c], edge_color[c], radius, max_radius(tgt))]

-----------------------------------------------------------------------------
(* Search step. *)

\* random_range panics on an empty range: 0..width, 0..height, 1..=max_radius.
SamplePanics(tgt) == tgt.width = 0 \/ tgt.height = 0 \/ max_radius(tgt) = 0

Centers(tgt) == (0..(tgt.width - 1)) \X (0..(tgt.height - 1))
Radii(tgt) == 1..max_radius(tgt)

\* The positions of the change set of lines 163-168: the circle points that
\* pass the filter, in the order generated and with their repetitions.  The
\* casts `x as u32`, `y as u32` follow the filter's x >= 0, y >= 0 and the
\* coordinates are below 2^32, so they keep the value.
kept_points(tgt, circle_points) ==
    SelectSeq(circle_points, LAMBDA p : in_image(tgt, p))

\* .map(|[x, y]| ([x as u32, y as u32], color))
changes_of(positions, color) ==
    [i \in 1..Len(positions) |-> <<positions[i], color>>]

\* tick with `loss_delta > 0.0` as the test that rejects.
tick_AcceptsZero(tgt, approx, center_x, center_y, radius) ==
    LET circle_points == generate_circle_points(center_x, center_y, radius)
        positions == kept_points(tgt, circle_points)
        reachable == \A i \in 1..Len(positions) :
                        Accessible(tgt, positions[i]) /\ Accessible(approx, positions[i])
        color == calculate_weighted_color(tgt, center_x, center_y, radius,
                                          circle_points)
        changes == changes_of(positions, color)
        delta == loss_delta(tgt, approx, changes)
    IN  IF ~reachable
        THEN [ret |-> "panic", approx |-> approx, delta |-> 0,
              changes |-> <<>>, color |-> Black]
        ELSE IF delta > 0
        THEN [ret |-> "false", approx |-> approx, delta |-> delta,
              changes |-> changes, color |-> color]
        ELSE [ret |-> "true", approx |-> apply(approx, changes), delta |-> delta,
              changes |-> changes, color |-> color]

\* tick, for the sampled centre and radius.  ret is what tick returns ("panic"
\* for a slice index out of range), approx the approximation after the call.
tick(tgt, approx, center_x, center_y, radius) ==
    LET circle_points == generate_circle_points(center_x, center_y, radius)
        positions == kept_points(tgt, circle_points)
        reachable == \A i \in 1..Len(positions) :
                        Accessible(tgt, positions[i]) /\ Accessible(approx, positions[i])
        color == calculate_weighted_color(tgt, center_x, center_y, radius,
                                          circle_points)
        changes == changes_of(positions, color)
        delta == loss_delta(tgt, approx, changes)
    IN  IF ~reachable
        THEN [ret |-> "panic", approx |-> approx, delta |-> 0,
              changes |-> <<>>, color |-> Black]
        ELSE IF delta >= 0
        THEN [ret |-> "false", approx |-> approx, delta |-> delta,
              changes |-> changes, color |-> color]
        ELSE [ret |-> "true", approx |-> apply(approx, changes), delta |-> delta,
              changes |-> changes, color |-> color]

-----------------------------------------------------------------------------
(* Composition. *)

\* The last of the elements with the least loss (Iterator::max_by's choice
\* among equals, not min_by's).
min_by_loss_Last(pairs) ==
    LET least == CHOOSE i \in 1..Len(pairs) :
                    /\ \A j \in 1..Len(pairs) : pairs[i][2] <= pairs[j][2]
                    /\ \A j \in (i + 1)..Len(pairs) : pairs[j][2] > pairs[i][2]
    IN  pairs[least]

\* .map(|image| (color, loss)).min_by(|(_, a), (_, b)| a.total_cmp(b)): the
\* first of the elements with the least loss.
min_by_loss(pairs) ==
    LET least == CHOOSE i \in 1..Len(pairs) :
                    /\ \A j \in 1..Len(pairs) : pairs[i][2] <= pairs[j][2]
                    /\ \A j \in 1..(i - 1) : pairs[j][2] > pairs[i][2]
    IN  pairs[least]

\* The best colour of lines 78-87 and 217-226 at the position (x, y).
best_color(tgt, images, x, y) ==
    LET target_color == color_at(tgt, <<x, y>>)
        pairs == [k \in 1..Len(images) |->
                    <<color_at(images[k], <<x, y>>),
                      pixel_loss(color_at(images[k], <<x, y>>), target_color)>>]
    IN  min_by_loss(pairs)[1]

\* u32::from_be_bytes([0, r, g, b])
from_be_bytes(col) == col[1] * 65536 + col[2] * 256 + col[3]

\* compose: the canvas in row-major order.
compose(tgt, images) ==
    [i \in 1..(tgt.width * tgt.height) |->
        from_be_bytes(best_color(tgt, images, (i - 1) % tgt.width,
                                 (i - 1) \div tgt.width))]

\* The export loop of lines 72-91: put_pixel(x, y, Rgb(best_color)).
export_image(tgt, images) ==
    [i \in 1..(tgt.width * tgt.height) |->
        best_color(tgt, images, (i - 1) % tgt.width, (i - 1) \div tgt.width)]

-----------------------------------------------------------------------------
(* Inputs. *)

\* An image that is black except for the given dots <<x, y, colour>>.
Dotted(w, h, dots) ==
    MkImage(w, h, [p \in (0..(w - 1)) \X (0..(h - 1)) |->
        IF \E d \in dots : d[1] = p[1] /\ d[2] = p[2]
        THEN (CHOOSE d \in dots : d[1] = p[1] /\ d[2] = p[2])[3]
        ELSE Black])

\* 4x4, one dark red dot.
TargetDot == Dotted(4, 4, {<<1, 1, <<3, 0, 0>>>>})
\* 3x3: min(width, height) / 4 = 0.
TargetSmall == Dotted(3, 3, {<<1, 1, <<9, 9, 9>>>>})

DriverTargets == {TargetDot, TargetSmall}

\* 4x4 with a red and a green dot: stamps of different colours can overlap
\* on a black pixel, so two members can differ there with the same loss.
TargetTie == Dotted(4, 4, {<<0, 1, <<2, 0, 0>>>>, <<2, 1, <<0, 3, 0>>>>})

\* 8x8, so that max_radius = 2: one red dot in the corner.
TargetCorner == Dotted(8, 8, {<<0, 0, <<100, 0, 0>>>>})

TickTargets == {TargetDot, TargetSmall, TargetCorner}

\* An image whose pixels all differ: (x, y) holds <<10x, 10y, 0>>.
Gradient(w, h) ==
    MkImage(w, h, [p \in (0..(w - 1)) \X (0..(h - 1)) |-> <<10 * p[1], 10 * p[2], 0>>])

PixelTargets == {Gradient(2, 2), Gradient(3, 2), Gradient(4, 4)}

White == <<255, 255, 255>>

NoCall == [n |-> 0, center |-> <<0, 0>>, radius |-> 0, before |-> <<>>,
           ret |-> "none", delta |-> 0, changes |-> <<>>, color |-> Black]
NoProbe == [n |-> 0, op |-> "none", point |-> <<0, 0>>, result |-> Black]
NoCirc == [pc |-> "idle"]

-----------------------------------------------------------------------------
(* The driver: main. *)

Members == 1..args.threads

\* The loop's test with || for &&.
LoopCondition_Or == window.open \/ ~window.escape

\* window.is_open() && !window.is_key_down(Key::Escape)        (line 45)
LoopCondition == window.open /\ ~window.escape

\* !window.is_open() || window.is_key_down(Key::Escape)        (line 66)
FinalCondition == ~window.open \/ window.escape

\* A scope that returns once the threads are spawned, without joining them.
ScopeCanExit_NoJoin == spawned = args.threads

\* thread::scope returns when every spawned thread has ended.
ScopeCanExit ==
    spawned = args.threads /\ \A i \in Members : wst[i] \in {"done", "panicked"}

Init ==
    /\ args = [threads |-> Threads, iterations |-> Iterations]
    /\ target \in DriverTargets
    /\ approxes = [i \in 1..Threads |-> Blank(target.width, target.height)]
    /\ canvas = [i \in 1..(target.width * target.height) |-> 0]
    /\ output_image = <<>>
    /\ window \in [open : BOOLEAN, escape : BOOLEAN]
    /\ pc = "loop"
    /\ spawned = 0
    /\ wst = [i \in 1..Threads |-> "idle"]
    /\ iter = [i \in 1..Threads |-> 0]
    /\ rounds = 0
    /\ composed = 0
    /\ exports = 0
    /\ last = NoCall
    /\ probe = NoProbe
    /\ circ = NoCirc

\* The test of the while loop; a round starts or the loop is left.
LoopHead ==
    /\ pc = "loop"
    /\ LoopCondition => rounds < MaxRounds
    /\ IF LoopCondition
       THEN /\ pc' = "scope"
            /\ spawned' = 0
            /\ wst' = [i \in Members |-> "idle"]
            /\ iter' = [i \in Members |-> 0]
            /\ rounds' = rounds + 1
       ELSE /\ pc' = "final"
            /\ UNCHANGED <<spawned, wst, iter, rounds>>
    /\ UNCHANGED <<args, target, approxes, canvas, output_image, window,
                   composed, exports, last, probe, circ>>

\* threads.push(s.spawn(...)) for the next member.
Spawn ==
    /\ pc = "scope"
    /\ spawned < args.threads
    /\ spawned' = spawned + 1
    /\ wst' = [wst EXCEPT ![spawned + 1] = "running"]
    /\ UNCHANGED <<args, target, approxes, canvas, output_image, window, pc,
                   iter, rounds, composed, exports, last, probe, circ>>

\* One iteration of the worker's loop: tick(&target, approx).
WorkerTick(i) ==
    /\ wst[i] = "running"
    /\ iter[i] < args.iterations
    /\ IF SamplePanics(target)
       THEN /\ wst' = [wst EXCEPT ![i] = "panicked"]
            /\ UNCHANGED <<approxes, iter>>
       ELSE \E c \in Centers(target), r \in Radii(target) :
              LET t == tick(target, approxes[i], c[1], c[2], r)
              IN  IF t.ret = "panic"
                  THEN /\ wst' = [wst EXCEPT ![i] = "panicked"]
                       /\ UNCHANGED <<approxes, iter>>
                  ELSE /\ approxes' = [approxes EXCEPT ![i] = t.approx]
                       /\ iter' = [iter EXCEPT ![i] = @ + 1]
                       /\ UNCHANGED wst
    /\ UNCHANGED <<args, target, canvas, output_image, window, pc, spawned,
                   rounds, composed, exports, last, probe, circ>>

\* The worker's loop has run `iterations` times; the thread ends.
WorkerExit(i) ==
    /\ wst[i] = "running"
    /\ iter[i] = args.iterations
    /\ wst' = [wst EXCEPT ![i] = "done"]
    /\ UNCHANGED <<args, target, approxes, canvas, output_image, window, pc,
                   spawned, iter, rounds, composed, exports, last, probe, circ>>

\* The end of thread::scope: joins every thread, and panics if one panicked.
ScopeEnd ==
    /\ pc = "scope"
    /\ ScopeCanExit
    /\ pc' = IF \E i \in Members : wst[i] = "panicked" THEN "panicked" ELSE "compose"
    /\ UNCHANGED <<args, target, approxes, canvas, output_image, window, spawned,
                   wst, iter, rounds, composed, exports, last, probe, circ>>

\* compose(&mut canvas, &target, &approxes)
Compose ==
    /\ pc = "compose"
    /\ canvas' = compose(target, approxes)
    /\ composed' = composed + 1
    /\ pc' = "update"
    /\ UNCHANGED <<args, target, approxes, output_image, window, spawned, wst,
                   iter, rounds, exports, last, probe, circ>>

\* window.update_with_buffer(&canvas, ...): shows the canvas and polls the
\* window's events; a closed window stays closed.
Update ==
    /\ pc = "update"
    /\ \E o \in {window.open, FALSE}, e \in BOOLEAN :
          window' = [open |-> o, escape |-> e]
    /\ pc' = "loop"
    /\ UNCHANGED <<args, target, approxes, canvas, output_image, spawned, wst,
                   iter, rounds, composed, exports, last, probe, circ>>

\* Lines 66-98: the final export.
Final ==
    /\ pc = "final"
    /\ IF FinalCondition
       THEN /\ output_image' = export_image(target, approxes)
            /\ exports' = exports + 1
       ELSE UNCHANGED <<output_image, exports>>
    /\ pc' = "done"
    /\ UNCHANGED <<args, target, approxes, canvas, window, spawned, wst, iter,
                   rounds, composed, last, probe, circ>>

Next ==
    \/ LoopHead
    \/ Spawn
    \/ \E i \in Members : WorkerTick(i)
    \/ \E i \in Members : WorkerExit(i)
    \/ ScopeEnd
    \/ Compose
    \/ Update
    \/ Final

Spec == Init /\ [][Next]_vars

-----------------------------------------------------------------------------
(* The search step called directly: tick(&target, &mut approx) on one       *)
(* approximation, its arguments and result kept in `last`.                  *)

InitTick ==
    /\ args = [threads |-> 1, iterations |-> 0]
    /\ target \in TickTargets
    /\ approxes = <<Blank(target.width, target.height)>>
    /\ canvas = [i \in 1..(target.width * target.height) |-> 0]
    /\ output_image = <<>>
    /\ window = [open |-> TRUE, escape |-> FALSE]
    /\ pc = "call"
    /\ spawned = 0
    /\ wst = <<"idle">>
    /\ iter = <<0>>
    /\ rounds = 0
    /\ composed = 0
    /\ exports = 0
    /\ last = NoCall
    /\ probe = NoProbe
    /\ circ = NoCirc

\* A call of tick whose random_range panics on an empty range.
TickPanics ==
    /\ pc = "call"
    /\ last.n < MaxTicks
    /\ last.ret # "panic"
    /\ SamplePanics(target)
    /\ last' = [NoCall EXCEPT !.n = last.n + 1, !.before = approxes[1],
                              !.ret = "panic"]
    /\ UNCHANGED <<drivervars, probe, circ>>

\* A call of tick with the centre and the radius it samples.
TickCall ==
    /\ pc = "call"
    /\ last.n < MaxTicks
    /\ ~SamplePanics(target)
    /\ \E c \in Centers(target), r \in Radii(target) :
          LET t == tick(target, approxes[1], c[1], c[2], r)
          IN  /\ approxes' = [approxes EXCEPT ![1] = t.approx]
              /\ last' = [n |-> last.n + 1, center |-> c, radius |-> r,
                          before |-> approxes[1], ret |-> t.ret,
                          delta |-> t.delta, changes |-> t.changes,
                          color |-> t.color]
    /\ UNCHANGED <<args, target, canvas, output_image, window, pc, spawned, wst,
                   iter, rounds, composed, exports, probe, circ>>

NextTick == TickPanics \/ TickCall

SpecTick == InitTick /\ [][NextTick]_vars

-----------------------------------------------------------------------------
(* The rounds of main with the workers taken one call of tick at a time:    *)
(* the members' searches between two compositions, the composition, the     *)
(* window update and the export.  Thread scheduling and the number of       *)
(* calls per round are those of Spec and are left out here.                 *)

InitCompose ==
    /\ args = [threads |-> Threads, iterations |-> Iterations]
    /\ target = TargetTie
    /\ approxes = [i \in 1..Threads |-> Blank(target.width, target.height)]
    /\ canvas = [i \in 1..(target.width * target.height) |-> 0]
    /\ output_image = <<>>
    /\ window = [open |-> TRUE, escape |-> FALSE]
    /\ pc = "scope"
    /\ spawned = Threads
    /\ wst = [i \in 1..Threads |-> "running"]
    /\ iter = [i \in 1..Threads |-> 0]
    /\ rounds = 0
    /\ composed = 0
    /\ exports = 0
    /\ last = NoCall
    /\ probe = NoProbe
    /\ circ = NoCirc

\* tick(&target, approx) of member i, inside the scope.
RoundTick(i) ==
    /\ pc = "scope"
    /\ ~SamplePanics(target)
    /\ \E c \in Centers(target), r \in Radii(target) :
          LET t == tick(target, approxes[i], c[1], c[2], r)
          IN  IF t.ret = "panic"
              THEN pc' = "panicked" /\ UNCHANGED approxes
              ELSE approxes' = [approxes EXCEPT ![i] = t.approx] /\ UNCHANGED pc
    /\ UNCHANGED <<args, target, canvas, output_image, window, spawned, wst,
                   iter, rounds, composed, exports, last, probe, circ>>

\* The scope has ended: compose(&mut canvas, &target, &approxes).
RoundCompose ==
    /\ pc = "scope"
    /\ canvas' = compose(target, approxes)
    /\ pc' = "update"
    /\ UNCHANGED <<args, target, approxes, output_image, window, spawned, wst,
                   iter, rounds, composed, exports, last, probe, circ>>

\* window.update_with_buffer, then the test of the while loop.
RoundUpdate ==
    /\ pc = "update"
    /\ \E o \in {window.open, FALSE}, e \in BOOLEAN :
          /\ window' = [open |-> o, escape |-> e]
          /\ pc' = IF o /\ ~e THEN "scope" ELSE "final"
    /\ UNCHANGED <<args, target, approxes, canvas, output_image, spawned, wst,
                   iter, rounds, composed, exports, last, probe, circ>>

\* Lines 66-98 once the loop is left: the export.
RoundExport ==
    /\ pc = "final"
    /\ FinalCondition
    /\ output_image' = export_image(target, approxes)
    /\ exports' = 1
    /\ pc' = "done"
    /\ UNCHANGED <<args, target, approxes, canvas, window, spawned, wst, iter,
                   rounds, composed, last, probe, circ>>

NextCompose ==
    \/ \E i \in Members : RoundTick(i)
    \/ RoundCompose
    \/ RoundUpdate
    \/ RoundExport

SpecCompose == InitCompose /\ [][NextCompose]_vars

-----------------------------------------------------------------------------
(* The pixel buffer called directly with any coordinates.                   *)

InitPixel ==
    /\ args = [threads |-> 1, iterations |-> 0]
    /\ target \in PixelTargets
    /\ approxes = <<Blank(target.width, target.height)>>
    /\ canvas = [i \in 1..(target.width * target.height) |-> 0]
    /\ output_image = <<>>
    /\ window = [open |-> TRUE, escape |-> FALSE]
    /\ pc = "call"
    /\ spawned = 0
    /\ wst = <<"idle">>
    /\ iter = <<0>>
    /\ rounds = 0
    /\ composed = 0
    /\ exports = 0
    /\ last = NoCall
    /\ probe = NoProbe
    /\ circ = NoCirc

\* target.color_at([x, y])
ColorAtCall ==
    /\ pc = "call"
    /\ probe.n = 0
    /\ \E x \in 0..MaxCoord, y \in 0..MaxCoord :
          probe' = [n |-> 1, op |-> "color_at", point |-> <<x, y>>,
                    result |-> color_at(target, <<x, y>>)]
    /\ UNCHANGED <<drivervars, last, circ>>

\* *approx.color_at_mut([x, y]) = White
ColorAtMutCall ==
    /\ pc = "call"
    /\ probe.n = 0
    /\ \E x \in 0..MaxCoord, y \in 0..MaxCoord :
          IF Accessible(approxes[1], <<x, y>>)
          THEN /\ approxes' = [approxes EXCEPT ![1] = set_color(@, <<x, y>>, White)]
               /\ probe' = [n |-> 1, op |-> "color_at_mut", point |-> <<x, y>>,
                            result |-> White]
          ELSE /\ approxes' = approxes
               /\ probe' = [n |-> 1, op |-> "color_at_mut", point |-> <<x, y>>,
                            result |-> Panic]
    /\ UNCHANGED <<args, target, canvas, output_image, window, pc, spawned, wst,
                   iter, rounds, composed, exports, last, circ>>

NextPixel == ColorAtCall \/ ColorAtMutCall

SpecPixel == InitPixel /\ [][NextPixel]_vars

-----------------------------------------------------------------------------
(* The rasterizer run one loop iteration at a time.                         *)

InitCircle ==
    /\ args = [threads |-> 1, iterations |-> 0]
    /\ target = Blank(0, 0)
    /\ approxes = <<Blank(0, 0)>>
    /\ canvas = <<>>
    /\ output_image = <<>>
    /\ window = [open |-> TRUE, escape |-> FALSE]
    /\ pc = "call"
    /\ spawned = 0
    /\ wst = <<"idle">>
    /\ iter = <<0>>
    /\ rounds = 0
    /\ composed = 0
    /\ exports = 0
    /\ last = NoCall
    /\ probe = NoProbe
    /\ \E xc \in (-MaxC)..MaxC, yc \in (-MaxC)..MaxC, r \in 1..MaxR :
          circ = [pc |-> "loop", s |-> CircleStart(xc, yc, r)]

\* while x <= y { ... }
CircleLoop ==
    /\ circ.pc = "loop"
    /\ circ.s.x <= circ.s.y
    /\ circ' = [circ EXCEPT !.s = CircleStep(circ.s)]
    /\ UNCHANGED <<drivervars, last, probe>>

\* The loop's test fails: points is returned.
CircleReturn ==
    /\ circ.pc = "loop"
    /\ ~(circ.s.x <= circ.s.y)
    /\ circ' = [circ EXCEPT !.pc = "done"]
    /\ UNCHANGED <<drivervars, last, probe>>

NextCircle == CircleLoop \/ CircleReturn

\* The function runs on: the thread that calls it is scheduled.
SpecCircle == InitCircle /\ [][NextCircle]_vars /\ WF_vars(NextCircle)

-----------------------------------------------------------------------------
(* Properties. *)

Positions(img) == (0..(img.width - 1)) \X (0..(img.height - 1))

\* The squared error of img against the target over the pixel set P, every
\* pixel of P counted once.
RECURSIVE LossOver(_, _, _)
LossOver(tgt, img, P) ==
    IF P = {} THEN 0
    ELSE LET p == CHOOSE e \in P : TRUE
         IN  pixel_loss(color_at(tgt, p), color_at(img, p))
             + LossOver(tgt, img, P \ {p})

\* The squared error over the whole image.
TotalLoss(tgt, img) == LossOver(tgt, img, Positions(tgt))

\* The positions a change set touches.
Touched(changes) == {changes[i][1] : i \in 1..Len(changes)}

Called == last.ret \in {"true", "false"}

\* C1: a stamp that tick accepts leaves the total squared error of the
\* approximation, summed once over every pixel of the image, strictly smaller
\* than it was before the call.
C1_AcceptedStampLowersTotalLoss ==
    last.ret = "true" =>
        TotalLoss(target, approxes[1]) < TotalLoss(target, last.before)

\* C2: tick returns true and changes the approximation exactly when the delta
\* it computed is negative; with a delta >= 0, zero included, it returns false
\* and every pixel of the approximation is as it was before the call.
C2_AcceptsIffDeltaNegative ==
    Called =>
        LET delta == loss_delta(target, last.before, last.changes)
        IN  /\ last.delta = delta
            /\ (last.ret = "true") <=> (delta < 0)
            /\ delta >= 0 => last.ret = "false" /\ approxes[1] = last.before
            /\ delta < 0 => approxes[1] # last.before

\* A call that was rejected with a delta of exactly 0 on a change set that is not
\* empty, after a call that was accepted.
C2_Witness ==
    /\ last.ret = "false"
    /\ last.delta = 0
    /\ last.changes # <<>>
    /\ last.before # Blank(target.width, target.height)

\* C3: the value loss_delta returns for the change set tick builds is the loss
\* over the distinct pixels the change set touches after applying it, minus the
\* loss over the same pixels before.
C3_DeltaIsLossChangeOverPixels ==
    Called =>
        LET P == Touched(last.changes)
        IN  last.delta = LossOver(target, apply(last.before, last.changes), P)
                         - LossOver(target, last.before, P)

\* C9: every call of tick on a target of width >= 1 and height >= 1 samples a
\* radius in [1, min(width, height) / 4] and returns true or false.
C9_TickReturnsNormally ==
    (last.n > 0 /\ target.width >= 1 /\ target.height >= 1) =>
        Called /\ last.radius \in 1..(Min(target.width, target.height) \div 4)

\* C8: color_at and color_at_mut, called with a coordinate outside
\* [0, width) x [0, height), end in a fatal error; they never return or expose
\* the colour of another pixel.
C8_OutsideIsFatal ==
    (probe.n > 0 /\ ~(probe.point[1] < target.width /\ probe.point[2] < target.height))
        => probe.result = Panic

-----------------------------------------------------------------------------

\* The colour a packed canvas value holds.
Unpack(v) == <<v \div 65536, (v \div 256) % 256, v % 256>>

LossAt(img, p) == pixel_loss(color_at(img, p), color_at(target, p))

\* The lowest-indexed member whose loss at p is the least of all members.
FirstBest(p) ==
    LET least == CHOOSE v \in {LossAt(approxes[k], p) : k \in Members} :
                    \A k \in Members : v <= LossAt(approxes[k], p)
        holders == {k \in Members : LossAt(approxes[k], p) = least}
    IN  CHOOSE k \in holders : \A j \in holders : k <= j

Index(p) == p[2] * target.width + p[1] + 1

\* C4: at every position, compose and the final export write the colour of the
\* lowest-indexed member whose pixel_loss against the target is least there, so
\* the written pixel's loss is <= the loss of every member at that position.
C4_ComposedIsFirstBest ==
    /\ pc = "update" =>
          \A p \in Positions(target) :
             /\ canvas[Index(p)] = from_be_bytes(color_at(approxes[FirstBest(p)], p))
             /\ \A k \in Members :
                   pixel_loss(Unpack(canvas[Index(p)]), color_at(target, p))
                       <= LossAt(approxes[k], p)
    /\ exports = 1 =>
          \A p \in Positions(target) :
             /\ output_image[Index(p)] = color_at(approxes[FirstBest(p)], p)
             /\ \A k \in Members :
                   pixel_loss(output_image[Index(p)], color_at(target, p))
                       <= LossAt(approxes[k], p)

\* A composition in which, at some position, the first member is not the
\* best, and at some position two members of different colours share the
\* least loss and the lower index is taken.
C4_Witness ==
    /\ pc = "update"
    /\ \E p \in Positions(target) : FirstBest(p) > 1
    /\ \E p \in Positions(target) :
          \E j, k \in Members :
             /\ j < k
             /\ FirstBest(p) = j
             /\ LossAt(approxes[k], p) = LossAt(approxes[j], p)
             /\ color_at(approxes[k], p) # color_at(approxes[j], p)

\* C5: when compose starts, every worker of the round has ended and every
\* member has run exactly `iterations` calls of tick in that round.
C5_ComposeAfterAllWorkers ==
    pc = "compose" =>
        \A i \in Members : wst[i] = "done" /\ iter[i] = args.iterations

\* compose starts in the second round, the members having diverged.
C5_Witness ==
    /\ pc = "compose"
    /\ rounds = 2
    /\ approxes[1] # approxes[2]

\* C6: the stop signal acts only at a round boundary.  A round in progress goes
\* on to its composition and display whatever the window reports; a stop seen at
\* the boundary ends the loop, after which no tick runs and no approximation
\* changes; the export happens once, from those approximations.
C6_StopOnlyBetweenRounds ==
    /\ [][/\ (pc = "loop" /\ FinalCondition) => pc' = "final"
          /\ pc \in {"scope", "compose", "update"} =>
                pc' \in {"scope", "compose", "update", "loop", "panicked"}
          /\ pc \in {"final", "done"} =>
                /\ pc' \in {"final", "done"}
                /\ approxes' = approxes
                /\ iter' = iter
                /\ rounds' = rounds
          /\ exports' # exports =>
                /\ pc = "final" /\ exports = 0 /\ exports' = 1
                /\ output_image' = export_image(target, approxes')]_vars
    /\ [](pc \in {"final", "done"} =>
             /\ composed = rounds
             /\ rounds > 0 => \A i \in Members : iter[i] = args.iterations)
    /\ [](pc = "done" => exports = 1)
    /\ [](exports <= 1)

\* The run has ended after at least one round that changed an approximation.
C6_Witness ==
    /\ pc = "done"
    /\ exports = 1
    /\ rounds >= 1
    /\ \E i \in Members : approxes[i] # Blank(target.width, target.height)

\* The points of the circle (c, r) that lie in the image.
RangeOf(seq) == {seq[i] : i \in 1..Len(seq)}
CirclePixels(c, r) ==
    {p \in RangeOf(generate_circle_points(c[1], c[2], r)) :
        p[1] >= 0 /\ p[1] < target.width /\ p[2] >= 0 /\ p[2] < target.height}

\* C10: a step that changes member i's approximation is a tick of member i's
\* worker; it leaves the target and every other member as they were; for some
\* circle tick can sample, the pixels of member i that are in-image points of
\* the circle all hold one colour afterwards and every other pixel of member i
\* is unchanged; and every position tick scores or writes lies in the image.
C10_StampWritesOnlyItsCircle ==
    [][\A i \in Members :
          approxes'[i] # approxes[i] =>
             /\ target' = target
             /\ \A j \in Members \ {i} : approxes'[j] = approxes[j]
             /\ wst[i] = "running" /\ iter'[i] = iter[i] + 1
             /\ \E c \in Centers(target), r \in Radii(target) :
                   LET pts == CirclePixels(c, r)
                       scored == RangeOf(kept_points(target,
                                     generate_circle_points(c[1], c[2], r)))
                   IN  /\ scored = pts
                       /\ \E col \in {color_at(approxes'[i], p) : p \in pts} :
                             \A p \in Positions(target) :
                                color_at(approxes'[i], p) =
                                   IF p \in pts THEN col
                                   ELSE color_at(approxes[i], p)]_vars

\* A worker has stamped its member while another member is still blank.
C10_Witness ==
    /\ pc = "scope"
    /\ \E i, j \in Members :
          /\ approxes[i] # Blank(target.width, target.height)
          /\ approxes[j] = Blank(target.width, target.height)

\* The eight images of the offset (dx, dy) under the symmetries of the octants.
Images(dx, dy) ==
    {<<dx, dy>>, <<-dx, dy>>, <<dx, -dy>>, <<-dx, -dy>>,
     <<dy, dx>>, <<-dy, dx>>, <<dy, -dx>>, <<-dy, -dx>>}

Abs(n) == IF n < 0 THEN -n ELSE n

\* C7: for a radius r >= 1 generate_circle_points returns, and the set of
\* points returned is closed under the eight octant symmetries about the centre
\* and lies within |dx| <= r, |dy| <= r.
C7_CircleSymmetricAndBounded ==
    /\ [](circ.pc = "done" =>
            LET pts == RangeOf(circ.s.points)
            IN  \A p \in pts :
                   LET dx == p[1] - circ.s.xc
                       dy == p[2] - circ.s.yc
                   IN  /\ Abs(dx) <= circ.s.r /\ Abs(dy) <= circ.s.r
                       /\ \A q \in Images(dx, dy) :
                             <<circ.s.xc + q[1], circ.s.yc + q[2]>> \in pts)
    /\ <>(circ.pc = "done")

\* The largest circle has been returned, off-axis points among its points.
C7_Witness ==
    /\ circ.pc = "done"
    /\ circ.s.r = MaxR
    /\ \E p \in RangeOf(circ.s.points) :
          p[1] # circ.s.xc /\ p[2] # circ.s.yc

====
